---------------------------- MODULE Spec2Model ----------------------------
(* A model of the markup parser of TkMarkText (src/tkmarktext/__init__.py):  *)
(* the justify-block splitter _parse_justify_blocks, the inline style       *)
(* parser _parse_style with its helpers, the line classifier                 *)
(* _insert_rich_text and the widget operations set_text and configure that   *)
(* render through _update_text.  Text is a sequence of one-char strings;     *)
(* positions are 0-based as in the Python source, so the character at Python *)
(* index i is text[i + 1].                                                   *)
EXTENDS Integers, Sequences, FiniteSets, TLC

VARIABLES
    text,       \* the argument of the entry point under analysis
    pc,         \* position of the caller: "line", "parsed", "reparsed", "text", "split"
    parsed,     \* the values of the _parse_style call on text
    reparsed,   \* the values of the _parse_style call on the joined segment texts
    split,      \* the values of the _parse_justify_blocks call on text
    pairing,    \* the locals of a _pair_style_markers call, loop step by loop step
    widget      \* the attributes of the widget: textbox, current_text, ...

vars == <<text, pc, parsed, reparsed, split, pairing, widget>>

-----------------------------------------------------------------------------
(* Bounds of the analysis *)

MaxLineLen == 10
MaxReparseLen == 7
MaxPieces == 6
MaxMalformedPieces == 5
MaxBlockLen == 6
MaxBoundaryPieces == 7
MaxPairLen == 8
MaxTextLen == 2
MaxItems == 1

-----------------------------------------------------------------------------
(* Generic helpers on character sequences (Python str operations) *)

NL == "\n"

Whitespace == {" ", NL}

\* text[a:b] for 0 <= a, b (Python slice, clipped like Python does)
Slice(s, a, b) ==
    IF b <= a THEN <<>>
    ELSE SubSeq(s, a + 1, IF b > Len(s) THEN Len(s) ELSE b)

\* text.startswith(tok, i)
StartsWith(s, tok, i) ==
    /\ i + Len(tok) <= Len(s)
    /\ \A k \in 1..Len(tok) : s[i + k] = tok[k]

\* c in text
Contains(s, c) == \E k \in 1..Len(s) : s[k] = c

\* seg.strip() == ""
IsBlank(s) == \A k \in 1..Len(s) : s[k] \in Whitespace

RECURSIVE SeqsUpTo(_, _)
SeqsUpTo(S, n) ==
    IF n = 0 THEN {<<>>}
    ELSE LET shorter == SeqsUpTo(S, n - 1)
         IN  shorter \cup {Append(s, c) : s \in {t \in shorter : Len(t) = n - 1}, c \in S}

-----------------------------------------------------------------------------
(* _style_token_definitions *)

Tokens == << <<"*", "*", "*">>, <<"*", "*">>, <<"_", "_">>, <<"*">> >>

TokenStyles(token) ==
    CASE token = <<"*", "*", "*">> -> {"bold", "italic"}
      [] token = <<"*", "*">>      -> {"bold"}
      [] token = <<"_", "_">>      -> {"underline"}
      [] token = <<"*">>           -> {"italic"}

(* _style_to_tag_map, with the .get(..., "content") default of style_set_to_tag *)
StyleSetToTag(active) ==
    CASE active = {}                              -> "content"
      [] active = {"bold"}                        -> "bold"
      [] active = {"italic"}                      -> "italic"
      [] active = {"bold", "italic"}              -> "bolditalic"
      [] active = {"underline"}                   -> "underline"
      [] active = {"bold", "underline"}           -> "boldunderline"
      [] active = {"italic", "underline"}         -> "italicunderline"
      [] active = {"bold", "italic", "underline"} -> "bolditalicunderline"
      [] OTHER                                    -> "content"

-----------------------------------------------------------------------------
(* _find_style_markers *)

\* variant: the tokens are tried from the last of the list to the first
RECURSIVE FirstMatch_ShortestFirst(_, _, _, _)
FirstMatch_ShortestFirst(s, toks, i, k) ==
    IF k > Len(toks) THEN <<>>
    ELSE IF StartsWith(s, toks[Len(toks) + 1 - k], i) THEN toks[Len(toks) + 1 - k]
    ELSE FirstMatch_ShortestFirst(s, toks, i, k + 1)

\* the inner for loop: the first token of the list that matches at i, or <<>>
RECURSIVE FirstMatch(_, _, _, _)
FirstMatch(s, toks, i, k) ==
    IF k > Len(toks) THEN <<>>
    ELSE IF StartsWith(s, toks[k], i) THEN toks[k]
    ELSE FirstMatch(s, toks, i, k + 1)

RECURSIVE ScanMarkers(_, _, _)
ScanMarkers(s, toks, i) ==
    IF i >= Len(s) THEN <<>>
    ELSE LET matched == FirstMatch(s, toks, i, 1)
         IN  IF matched # <<>>
             THEN <<[pos |-> i, token |-> matched, len |-> Len(matched), paired |-> FALSE]>>
                  \o ScanMarkers(s, toks, i + Len(matched))
             ELSE ScanMarkers(s, toks, i + 1)

FindStyleMarkers(s, toks) == ScanMarkers(s, toks, 0)

-----------------------------------------------------------------------------
(* _pair_style_markers.  The stack holds references to occurrences, modelled *)
(* as indices into the occurrence list; setting "paired" on an occurrence is *)
(* visible in the list the caller passed in, as with the Python dicts.       *)

\* variant: a newline between the two tokens does not prevent the pairing
PairStep_AcrossNewline(st, k, s) ==
    LET occ == st.markers[k]
        top == st.stack[Len(st.stack)]
        open_occ == st.markers[top]
    IN  IF /\ st.stack # <<>>
           /\ open_occ.token = occ.token
           /\ occ.pos > open_occ.pos + open_occ.len
        THEN [stack   |-> SubSeq(st.stack, 1, Len(st.stack) - 1),
              markers |-> [st.markers EXCEPT ![top].paired = TRUE, ![k].paired = TRUE],
              pairs   |-> Append(st.pairs, <<[open_occ EXCEPT !.paired = TRUE],
                                             [occ EXCEPT !.paired = TRUE]>>)]
        ELSE [st EXCEPT !.stack = Append(st.stack, k)]

\* the body of "for occ in style_markers" for the k-th occurrence
PairStep(st, k, s) ==
    LET occ == st.markers[k]
        top == st.stack[Len(st.stack)]
        open_occ == st.markers[top]
        inner_start == open_occ.pos + open_occ.len
        inner_end == occ.pos
    IN  IF /\ st.stack # <<>>
           /\ open_occ.token = occ.token
           /\ inner_end > inner_start
           /\ ~Contains(Slice(s, inner_start, inner_end), NL)
        THEN [stack   |-> SubSeq(st.stack, 1, Len(st.stack) - 1),
              markers |-> [st.markers EXCEPT ![top].paired = TRUE, ![k].paired = TRUE],
              pairs   |-> Append(st.pairs, <<[open_occ EXCEPT !.paired = TRUE],
                                             [occ EXCEPT !.paired = TRUE]>>)]
        ELSE [st EXCEPT !.stack = Append(st.stack, k)]

RECURSIVE PairLoop(_, _, _)
PairLoop(st, k, s) ==
    IF k > Len(st.markers) THEN st
    ELSE PairLoop(PairStep(st, k, s), k + 1, s)

\* variant: no stack; the occurrences of each token are paired two by two in
\* the order they come
PairStyleMarkersRun_PerToken(markers, s) ==
    LET idx(tok) == SelectSeq([k \in 1..Len(markers) |-> k],
                              LAMBDA k : markers[k].token = tok)
        pairsOf(tok) ==
            [j \in 1..(Len(idx(tok)) \div 2) |->
                <<[markers[idx(tok)[2 * j - 1]] EXCEPT !.paired = TRUE],
                  [markers[idx(tok)[2 * j]] EXCEPT !.paired = TRUE]>>]
        pairedIdx == UNION {{idx(Tokens[t])[j] : j \in 1..(2 * (Len(idx(Tokens[t])) \div 2))} :
                               t \in 1..Len(Tokens)}
    IN  [stack   |-> SelectSeq([k \in 1..Len(markers) |-> k], LAMBDA k : k \notin pairedIdx),
         markers |-> [k \in 1..Len(markers) |->
                         [markers[k] EXCEPT !.paired = (k \in pairedIdx)]],
         pairs   |-> pairsOf(Tokens[1]) \o pairsOf(Tokens[2])
                     \o pairsOf(Tokens[3]) \o pairsOf(Tokens[4])]

\* the whole call: .pairs is the return value, .markers the list as mutated
PairStyleMarkersRun(markers, s) ==
    PairLoop([stack |-> <<>>, markers |-> markers, pairs |-> <<>>], 1, s)

PairStyleMarkers(markers, s) == PairStyleMarkersRun(markers, s).pairs

-----------------------------------------------------------------------------
(* _build_style_events_and_skip_positions.  events is a dict from offset to  *)
(* a list of (op, style): a function whose DOMAIN is the set of keys.        *)

\* events.setdefault(k, []).append(e)
SetDefaultAppend(events, k, e) ==
    [p \in (DOMAIN events) \cup {k} |->
        IF p = k
        THEN (IF k \in DOMAIN events THEN Append(events[k], e) ELSE <<e>>)
        ELSE events[p]]

\* for style in token_styles[token]: one add and one remove event per style
RECURSIVE AddStyleEvents(_, _, _, _)
AddStyleEvents(events, styles, start_content, end_content) ==
    IF styles = {} THEN events
    ELSE LET style == CHOOSE x \in styles : TRUE
             withAdd == SetDefaultAppend(events, start_content, <<"add", style>>)
             withRemove == SetDefaultAppend(withAdd, end_content, <<"remove", style>>)
         IN  AddStyleEvents(withRemove, styles \ {style}, start_content, end_content)

\* variant: only the first character of a paired token is skipped
TokenRange_FirstCharOnly(occ) == occ.pos .. occ.pos

\* range(occ["pos"], occ["pos"] + occ["len"])
TokenRange(occ) == occ.pos .. (occ.pos + occ.len - 1)

\* variant: the closing token's characters are not recorded as skipped
RECURSIVE BuildLoop_KeepCloser(_, _, _)
BuildLoop_KeepCloser(acc, prs, k) ==
    IF k > Len(prs) THEN acc
    ELSE LET open_occ == prs[k][1]
             close_occ == prs[k][2]
             start_content == open_occ.pos + open_occ.len
             end_content == close_occ.pos
         IN  BuildLoop_KeepCloser(
                 [events |-> AddStyleEvents(acc.events, TokenStyles(open_occ.token),
                                            start_content, end_content),
                  skip_positions |-> acc.skip_positions \cup TokenRange(open_occ)],
                 prs, k + 1)

RECURSIVE BuildLoop(_, _, _)
BuildLoop(acc, prs, k) ==
    IF k > Len(prs) THEN acc
    ELSE LET open_occ == prs[k][1]
             close_occ == prs[k][2]
             start_content == open_occ.pos + open_occ.len
             end_content == close_occ.pos
         IN  BuildLoop([events |-> AddStyleEvents(acc.events, TokenStyles(open_occ.token),
                                                  start_content, end_content),
                        skip_positions |-> acc.skip_positions
                                           \cup TokenRange(open_occ)
                                           \cup TokenRange(close_occ)],
                       prs, k + 1)

BuildStyleEventsAndSkipPositions(prs) ==
    BuildLoop([events |-> <<>>, skip_positions |-> {}], prs, 1)

-----------------------------------------------------------------------------
(* _emit_segments_from_events.  style_counts is a dict from style to a       *)
(* positive count: a function whose DOMAIN is the set of keys.               *)

\* variant: a remove event drops the style whatever its count
ApplyEvent_NoRefCount(style_counts, ev) ==
    LET op == ev[1]
        style == ev[2]
        old == IF style \in DOMAIN style_counts THEN style_counts[style] ELSE 0
    IN  IF op = "add"
        THEN [x \in (DOMAIN style_counts) \cup {style} |->
                 IF x = style THEN old + 1 ELSE style_counts[x]]
        ELSE [x \in (DOMAIN style_counts) \ {style} |-> style_counts[x]]

ApplyEvent(style_counts, ev) ==
    LET op == ev[1]
        style == ev[2]
        old == IF style \in DOMAIN style_counts THEN style_counts[style] ELSE 0
    IN  IF op = "add"
        THEN [x \in (DOMAIN style_counts) \cup {style} |->
                 IF x = style THEN old + 1 ELSE style_counts[x]]
        ELSE IF old - 1 <= 0
             THEN [x \in (DOMAIN style_counts) \ {style} |-> style_counts[x]]
             ELSE [style_counts EXCEPT ![style] = old - 1]

RECURSIVE ApplyEvents(_, _, _)
ApplyEvents(style_counts, evs, k) ==
    IF k > Len(evs) THEN style_counts
    ELSE ApplyEvents(ApplyEvent(style_counts, evs[k]), evs, k + 1)

\* if idx in events: flush the buffer, apply the events, refresh active_set
AtEvents(st, events, idx) ==
    IF idx \in DOMAIN events
    THEN LET counts == ApplyEvents(st.style_counts, events[idx], 1)
         IN  [st EXCEPT !.out = IF st.buf # <<>>
                                 THEN Append(st.out, <<StyleSetToTag(st.active_set), st.buf>>)
                                 ELSE st.out,
                        !.buf = <<>>,
                        !.style_counts = counts,
                        !.active_set = DOMAIN counts]
    ELSE st

RECURSIVE EmitLoop(_, _, _, _, _)
EmitLoop(st, s, events, skip_positions, idx) ==
    IF idx >= Len(s) THEN st
    ELSE LET after == AtEvents(st, events, idx)
             next == IF idx \notin skip_positions
                     THEN [after EXCEPT !.buf = Append(after.buf, s[idx + 1])]
                     ELSE after
         IN  EmitLoop(next, s, events, skip_positions, idx + 1)

EmitSegmentsFromEvents(s, events, skip_positions) ==
    LET start == [style_counts |-> <<>>, active_set |-> {}, out |-> <<>>, buf |-> <<>>]
        walked == EmitLoop(start, s, events, skip_positions, 0)
        trailing == AtEvents(walked, events, Len(s))
    IN  IF trailing.buf # <<>>
        THEN Append(trailing.out, <<StyleSetToTag(trailing.active_set), trailing.buf>>)
        ELSE trailing.out

-----------------------------------------------------------------------------
(* _merge_adjacent_segments *)

RECURSIVE MergeLoop(_, _, _)
MergeLoop(merged, segs, k) ==
    IF k > Len(segs) THEN merged
    ELSE LET tag == segs[k][1]
             seg == segs[k][2]
             n == Len(merged)
         IN  IF seg = <<>> THEN MergeLoop(merged, segs, k + 1)
             ELSE IF n > 0 /\ merged[n][1] = tag
             THEN MergeLoop([merged EXCEPT ![n] = <<tag, merged[n][2] \o seg>>], segs, k + 1)
             ELSE MergeLoop(Append(merged, <<tag, seg>>), segs, k + 1)

\* variant: empty runs are dropped but equal neighbours are not joined
MergeAdjacentSegments_NoMerge(segs) == SelectSeq(segs, LAMBDA x : x[2] # <<>>)

MergeAdjacentSegments(segs) == MergeLoop(<<>>, segs, 1)

-----------------------------------------------------------------------------
(* _parse_style.  The run record keeps the intermediate values of the call;  *)
(* .merged is the value returned.                                            *)

\* variant: neither the fast path nor the fallback for an empty result
ParseStyleRun_NoGuards(s) ==
    LET paired == PairStyleMarkersRun(FindStyleMarkers(s, Tokens), s)
        built == BuildStyleEventsAndSkipPositions(paired.pairs)
        out == EmitSegmentsFromEvents(s, built.events, built.skip_positions)
    IN  [style_markers |-> paired.markers, pairs |-> paired.pairs,
         out_segments |-> out, merged |-> MergeAdjacentSegments(out)]

ParseStyleRun(s) ==
    IF ~(Contains(s, "*") \/ Contains(s, "_"))
    THEN [style_markers |-> <<>>, pairs |-> <<>>, out_segments |-> <<>>,
          merged |-> << <<"content", s>> >>]
    ELSE LET paired == PairStyleMarkersRun(FindStyleMarkers(s, Tokens), s)
             built == BuildStyleEventsAndSkipPositions(paired.pairs)
             out == EmitSegmentsFromEvents(s, built.events, built.skip_positions)
             merged == MergeAdjacentSegments(out)
         IN  [style_markers |-> paired.markers, pairs |-> paired.pairs,
              out_segments |-> out,
              merged |-> IF merged # <<>> THEN merged ELSE << <<"content", s>> >>]

ParseStyle(s) == ParseStyleRun(s).merged

\* the value of the run record before any call
NoStyleRun == [style_markers |-> <<>>, pairs |-> <<>>, out_segments |-> <<>>,
               merged |-> <<>>]

\* "".join(txt for tag, txt in segs)
RECURSIVE JoinTexts(_)
JoinTexts(segs) ==
    IF segs = <<>> THEN <<>> ELSE segs[1][2] \o JoinTexts(Tail(segs))

-----------------------------------------------------------------------------
(* _parse_justify_blocks.  The pattern                                       *)
(*     \[justify:(left|center|right)\](.*?)\[/justify\]     with re.DOTALL   *)
(* is matched as re.finditer does: leftmost start first, the alternatives in *)
(* order, the lazy group extended to the first closing marker (any character *)
(* is allowed in it, newline included), the next search starting where the   *)
(* previous match ended.                                                     *)

None == "None"

OpenerPrefix == <<"[", "j", "u", "s", "t", "i", "f", "y", ":">>

Alignments == << <<"l", "e", "f", "t">>,
                 <<"c", "e", "n", "t", "e", "r">>,
                 <<"r", "i", "g", "h", "t">> >>

Opener(alignment) == OpenerPrefix \o alignment \o <<"]">>

\* each alternative of the group followed by the closing bracket of the opener
AlignmentsBracket == [k \in 1..Len(Alignments) |-> Alignments[k] \o <<"]">>]

Closer == <<"[", "/", "j", "u", "s", "t", "i", "f", "y", "]">>

\* justify_tag = f"justify_{alignment}"
JustifyTag(alignment) ==
    CASE alignment = <<"l", "e", "f", "t">>           -> "justify_left"
      [] alignment = <<"c", "e", "n", "t", "e", "r">> -> "justify_center"
      [] alignment = <<"r", "i", "g", "h", "t">>      -> "justify_right"

\* variant: the group is greedy and runs to the last closing marker
RECURSIVE FirstCloserFrom_Greedy(_, _)
FirstCloserFrom_Greedy(s, i) ==
    IF i + Len(Closer) > Len(s) THEN -1
    ELSE LET later == FirstCloserFrom_Greedy(s, i + 1)
         IN  IF later # -1 THEN later
             ELSE IF StartsWith(s, Closer, i) THEN i ELSE -1

\* the first position j >= i where the closing marker starts, or -1
RECURSIVE FirstCloserFrom(_, _)
FirstCloserFrom(s, i) ==
    IF i + Len(Closer) > Len(s) THEN -1
    ELSE IF StartsWith(s, Closer, i) THEN i
    ELSE FirstCloserFrom(s, i + 1)

\* (left|center|right)\]: the first alternative that, followed by the closing
\* bracket, starts at j, or <<>>
RECURSIVE AlignmentAt(_, _, _)
AlignmentAt(s, j, k) ==
    IF k > Len(Alignments) THEN <<>>
    ELSE IF StartsWith(s, AlignmentsBracket[k], j) THEN Alignments[k]
    ELSE AlignmentAt(s, j, k + 1)

\* variant: an opener with no closing marker after it matches up to the end
MatchAt_Unterminated(s, i) ==
    IF ~StartsWith(s, OpenerPrefix, i) THEN <<>>
    ELSE LET alignment == AlignmentAt(s, i + Len(OpenerPrefix), 1)
             content_start == i + Len(Opener(alignment))
             found == FirstCloserFrom(s, content_start)
             content_end == IF found = -1 THEN Len(s) ELSE found
         IN  IF alignment = <<>> THEN <<>>
             ELSE <<[start |-> i,
                     end |-> IF found = -1 THEN Len(s) ELSE found + Len(Closer),
                     group1 |-> alignment,
                     content_start |-> content_start, content_end |-> content_end]>>

\* the match of the pattern that starts exactly at i, or <<>> if there is none
MatchAt(s, i) ==
    IF ~StartsWith(s, OpenerPrefix, i) THEN <<>>
    ELSE LET alignment == AlignmentAt(s, i + Len(OpenerPrefix), 1)
             content_start == i + Len(Opener(alignment))
             content_end == FirstCloserFrom(s, content_start)
         IN  IF alignment = <<>> \/ content_end = -1 THEN <<>>
             ELSE <<[start |-> i, end |-> content_end + Len(Closer), group1 |-> alignment,
                     content_start |-> content_start, content_end |-> content_end]>>

\* re.finditer: the matches found scanning from position i on
RECURSIVE FindIter(_, _)
FindIter(s, i) ==
    IF i >= Len(s) THEN <<>>
    ELSE LET m == MatchAt(s, i)
         IN  IF m = <<>> THEN FindIter(s, i + 1)
             ELSE m \o FindIter(s, m[1].end)

\* variant: the text before a match is never emitted
BlockStep_NoPreText(st, match, s) ==
    LET content == Slice(s, match.content_start, match.content_end)
    IN  [blocks |-> IF content # <<>>
                    THEN Append(st.blocks, <<JustifyTag(match.group1), content>>)
                    ELSE st.blocks,
         last_end |-> match.end]

\* the body of the for loop, for one match
BlockStep(st, match, s) ==
    LET pre_text == Slice(s, st.last_end, match.start)
        withPre == IF match.start > st.last_end /\ pre_text # <<>>
                   THEN Append(st.blocks, <<None, pre_text>>)
                   ELSE st.blocks
        content == Slice(s, match.content_start, match.content_end)
        withContent == IF content # <<>>
                       THEN Append(withPre, <<JustifyTag(match.group1), content>>)
                       ELSE withPre
    IN  [blocks |-> withContent, last_end |-> match.end]

RECURSIVE BlockLoop(_, _, _, _)
BlockLoop(st, ms, k, s) ==
    IF k > Len(ms) THEN st
    ELSE BlockLoop(BlockStep(st, ms[k], s), ms, k + 1, s)

\* variant: only empty blocks are dropped, whitespace-only ones are kept
DropBlankBlocks_OnlyEmpty(bs) == SelectSeq(bs, LAMBDA b : b[2] # <<>>)

\* blocks = [(jt, seg) for jt, seg in blocks if seg and seg.strip() != ""]
DropBlankBlocks(bs) == SelectSeq(bs, LAMBDA b : b[2] # <<>> /\ ~IsBlank(b[2]))

\* the whole call: .blocks is the value returned, .matches the regex matches
ParseJustifyBlocksRun(s) ==
    LET ms == FindIter(s, 0)
        looped == BlockLoop([blocks |-> <<>>, last_end |-> 0], ms, 1, s)
        post_text == Slice(s, looped.last_end, Len(s))
        withPost == IF looped.last_end < Len(s) /\ post_text # <<>>
                    THEN Append(looped.blocks, <<None, post_text>>)
                    ELSE looped.blocks
        orWhole == IF withPost = <<>> THEN << <<None, s>> >> ELSE withPost
    IN  [matches |-> ms, blocks |-> DropBlankBlocks(orWhole)]

ParseJustifyBlocks(s) == ParseJustifyBlocksRun(s).blocks

\* the value of the run record before any call
NoBlocksRun == [matches |-> <<>>, blocks |-> <<>>]

-----------------------------------------------------------------------------
(* The values a caller hands to set_text and configure(text=...): None, a    *)
(* str, a list, a tuple or a dict.  A value is a record of its Python type   *)
(* and its payload: the characters of a str, the items of a list or tuple,   *)
(* the (key, value) items of a dict.                                         *)

NoneValue == [type |-> "NoneType", val |-> <<>>]

Str(s) == [type |-> "str", val |-> s]

\* a == b on values
SameValue(a, b) == a.type = b.type /\ a.val = b.val

\* no footer
NoFooter == "None"

\* _setup_text_widgets(footer, include_scrollbar): a new empty textbox,
\* disabled; current_text = None, current_rich_text = True.  The textbox is
\* the sequence of its insert calls.
SetupTextWidgetsWith(footer, include_scrollbar) ==
    [textbox |-> <<>>, state |-> "disabled",
     current_text |-> NoneValue, current_rich_text |-> TRUE,
     footer |-> footer, include_scrollbar |-> include_scrollbar]

\* the call with the defaults of its parameters
SetupTextWidgets == SetupTextWidgetsWith(NoFooter, TRUE)

\* the locals of _pair_style_markers before any call
NoPairing == [markers |-> <<>>, stack |-> <<>>, pairs |-> <<>>, next |-> 0]

-----------------------------------------------------------------------------
(* _insert_rich_text: the line classifier.  Every textbox.insert call is     *)
(* kept as a record of its characters and its tags; the field at names the   *)
(* (block, line) the loops were at when the call was made, (0, 0) outside    *)
(* the loops.                                                                *)

Insert(txt, tags, at) == [txt |-> txt, tags |-> tags, at |-> at]

\* s.lstrip() for the whitespace of the analysis
RECURSIVE LStrip(_)
LStrip(s) == IF s # <<>> /\ s[1] \in Whitespace THEN LStrip(Tail(s)) ELSE s

\* s.rstrip()
RECURSIVE RStrip(_)
RStrip(s) ==
    IF s # <<>> /\ s[Len(s)] \in Whitespace THEN RStrip(SubSeq(s, 1, Len(s) - 1))
    ELSE s

\* s.strip()
Strip(s) == RStrip(LStrip(s))

\* block_text.splitlines(): the pieces between newlines, without a last empty
\* piece after a final newline
RECURSIVE SplitLinesFrom(_, _, _)
SplitLinesFrom(s, i, start) ==
    IF i >= Len(s) THEN
        IF start < Len(s) THEN << Slice(s, start, Len(s)) >> ELSE <<>>
    ELSE IF s[i + 1] = NL THEN
        << Slice(s, start, i) >> \o SplitLinesFrom(s, i + 1, i + 1)
    ELSE SplitLinesFrom(s, i + 1, start)

SplitLines(s) == SplitLinesFrom(s, 0, 0)

\* _get_tags_with_justify for a base tag that is one name
GetTagsWithJustify(base_tags, justify_type) ==
    IF justify_type # None THEN <<base_tags, justify_type>> ELSE <<base_tags>>

\* the for loop over formatted_parts
RECURSIVE InsertParts(_, _, _)
InsertParts(formatted_parts, justify_type, at) ==
    IF formatted_parts = <<>> THEN <<>>
    ELSE << Insert(formatted_parts[1][2],
                   GetTagsWithJustify(formatted_parts[1][1], justify_type), at) >>
         \o InsertParts(Tail(formatted_parts), justify_type, at)

\* the heading branches: the prefixes in the order they are tried
HeadingPrefixes == << <<"#", "#", "#", " ">>, <<"#", "#", " ">>, <<"#", " ">> >>

HeadingTags == << "###heading", "##heading", "#heading" >>

\* variant: the space that ends a prefix is not asked for
HeadingOf_NoSpace(stripped) ==
    LET heading == {h \in 1..Len(HeadingPrefixes) :
                       StartsWith(stripped,
                                  SubSeq(HeadingPrefixes[h], 1, Len(HeadingPrefixes[h]) - 1), 0)}
    IN  IF heading = {} THEN 0 ELSE CHOOSE x \in heading : \A y \in heading : x <= y

\* the if/elif chain on stripped.startswith: the first prefix that matches,
\* 0 when none does
HeadingOf(stripped) ==
    LET heading == {h \in 1..Len(HeadingPrefixes) : StartsWith(stripped, HeadingPrefixes[h], 0)}
    IN  IF heading = {} THEN 0 ELSE CHOOSE x \in heading : \A y \in heading : x <= y

\* variant: every blank line inserts a newline
InsertBlank_NoCollapse(st, at) ==
    [out |-> Append(st.out, Insert(<<NL>>, <<>>, at)), blank_line_pending |-> TRUE]

\* the else branch: a blank line
InsertBlank(st, at) ==
    IF ~st.blank_line_pending THEN
        [out |-> Append(st.out, Insert(<<NL>>, <<>>, at)), blank_line_pending |-> TRUE]
    ELSE st

\* the body of "for line in lines": st holds the inserts made so far and
\* blank_line_pending
InsertLine(st, line, justify_type, at) ==
    LET stripped == Strip(line)
        h == HeadingOf(stripped)
    IN  IF h # 0 THEN
            [out |-> Append(st.out,
                            Insert(Slice(stripped, Len(HeadingPrefixes[h]), Len(stripped))
                                       \o <<NL>>,
                                   GetTagsWithJustify(HeadingTags[h], justify_type), at)),
             blank_line_pending |-> FALSE]
        ELSE IF stripped # <<>> THEN
            [out |-> st.out \o InsertParts(ParseStyle(line), justify_type, at)
                            \o << Insert(<<NL>>, <<>>, at) >>,
             blank_line_pending |-> FALSE]
        ELSE InsertBlank(st, at)

RECURSIVE InsertLines(_, _, _, _, _)
InsertLines(st, lines, l, justify_type, b) ==
    IF l > Len(lines) THEN st
    ELSE InsertLines(InsertLine(st, lines[l], justify_type, <<b, l>>),
                     lines, l + 1, justify_type, b)

\* variant: blank_line_pending is carried from one block into the next
StartBlock_KeepPending(st) == st

\* blank_line_pending = False at the head of the body of "for ... in blocks"
StartBlock(st) == [st EXCEPT !.blank_line_pending = FALSE]

RECURSIVE InsertBlocks(_, _, _)
InsertBlocks(st, bs, b) ==
    IF b > Len(bs) THEN st
    ELSE InsertBlocks(InsertLines(StartBlock(st), SplitLines(bs[b][2]), 1, bs[b][1], b),
                      bs, b + 1)

\* the inserts of the whole call
InsertRichText(s) ==
    InsertBlocks([out |-> <<>>, blank_line_pending |-> FALSE], ParseJustifyBlocks(s), 1).out

-----------------------------------------------------------------------------
(* _update_text and what it calls.  The two fixed messages are kept as one   *)
(* piece each.                                                               *)

NoTextAvailable == <<"No text available">>

RichTextRequiresString == <<"Error: Rich text mode requires a string input.">>

\* the item.lstrip() of every item / key / value
LStripItems(items) == [k \in 1..Len(items) |-> LStrip(items[k])]

LStripPairs(items) ==
    [k \in 1..Len(items) |-> <<LStrip(items[k][1]), LStrip(items[k][2])>>]

\* _strip_leading_whitespace
StripLeadingWhitespace(v) ==
    CASE v.type = "NoneType" -> v
      [] v.type = "str"      -> [v EXCEPT !.val = LStrip(v.val)]
      [] v.type = "dict"     -> [v EXCEPT !.val = LStripPairs(v.val)]
      [] v.type \in {"list", "tuple"} -> [v EXCEPT !.val = LStripItems(v.val)]
      [] OTHER               -> v

\* repr(s) of a str that holds no quote and no backslash
RECURSIVE ReprChars(_)
ReprChars(s) ==
    IF s = <<>> THEN <<>>
    ELSE (IF s[1] = NL THEN <<"\\", "n">> ELSE <<s[1]>>) \o ReprChars(Tail(s))

Repr(s) == <<"'">> \o ReprChars(s) \o <<"'">>

RECURSIVE ReprItems(_)
ReprItems(items) ==
    IF items = <<>> THEN <<>>
    ELSE Repr(items[1])
         \o (IF Len(items) > 1 THEN <<",", " ">> ELSE <<>>)
         \o ReprItems(Tail(items))

\* str(t) of a tuple of such strs
TupleStr(items) ==
    <<"(">> \o ReprItems(items) \o (IF Len(items) = 1 THEN <<",">> ELSE <<>>) \o <<")">>

\* out += f"{heading}\n{content}\n\n" for every item of the dict
RECURSIVE DictOut(_)
DictOut(items) ==
    IF items = <<>> THEN <<>>
    ELSE items[1][1] \o <<NL>> \o items[1][2] \o <<NL, NL>> \o DictOut(Tail(items))

\* out += f"{str(item)}\n" for every item of the list
RECURSIVE ListOut(_)
ListOut(items) ==
    IF items = <<>> THEN <<>> ELSE items[1] \o <<NL>> \o ListOut(Tail(items))

\* _insert_simple_text: the one insert it makes
InsertSimpleText(v) ==
    LET out == CASE v.type = "dict"  -> DictOut(v.val)
                 [] v.type = "list"  -> ListOut(v.val)
                 [] v.type = "tuple" -> TupleStr(v.val)
                 [] OTHER            -> v.val
    IN  << Insert(out, <<>>, <<0, 0>>) >>

\* stripped_text is None
IsNoText(stripped_text) == stripped_text.type = "NoneType"

\* variant: rich mode formats whatever it is given, as simple mode does
RichInserts_AnyType(stripped_text) ==
    IF stripped_text.type # "str" THEN InsertSimpleText(stripped_text)
    ELSE InsertRichText(stripped_text.val)

\* the "if rich_text:" branch
RichInserts(stripped_text) ==
    IF stripped_text.type # "str"
    THEN << Insert(RichTextRequiresString, <<>>, <<0, 0>>) >>
    ELSE InsertRichText(stripped_text.val)

\* _update_text on the widget w: the textbox is made normal and emptied, the
\* inserts are made, the textbox is disabled again
UpdateText(w, v, rich_text) ==
    LET stripped_text == StripLeadingWhitespace(v)
    IN  IF IsNoText(stripped_text) THEN
            [w EXCEPT !.textbox = << Insert(NoTextAvailable, <<>>, <<0, 0>>) >>,
                      !.state = "disabled",
                      !.current_text = NoneValue,
                      !.current_rich_text = rich_text]
        ELSE
            [w EXCEPT !.textbox = IF rich_text THEN RichInserts(stripped_text)
                                  ELSE InsertSimpleText(stripped_text),
                      !.state = "disabled",
                      !.current_text = v,
                      !.current_rich_text = rich_text]

-----------------------------------------------------------------------------
(* The block splitter driven on every text made of up to MaxPieces pieces:   *)
(* opening markers of two alignments, the closing marker, a letter and a     *)
(* newline.                                                                  *)

Pieces == { Opener(Alignments[1]), Opener(Alignments[2]), Closer, <<"a">>, <<NL>> }

RECURSIVE Flatten(_)
Flatten(ps) == IF ps = <<>> THEN <<>> ELSE ps[1] \o Flatten(Tail(ps))

InitTexts(pieces, n) ==
    /\ text \in {Flatten(ps) : ps \in SeqsUpTo(pieces, n)}
    /\ pc = "text"
    /\ parsed = NoStyleRun
    /\ reparsed = NoStyleRun
    /\ split = NoBlocksRun
    /\ pairing = NoPairing
    /\ widget = SetupTextWidgets

InitBlocks == InitTexts(Pieces, MaxPieces)

\* blocks = self._parse_justify_blocks(text)
CallParseJustifyBlocks ==
    /\ pc = "text"
    /\ split' = ParseJustifyBlocksRun(text)
    /\ pc' = "split"
    /\ UNCHANGED <<text, parsed, reparsed, pairing, widget>>

NextBlocks == CallParseJustifyBlocks

SpecBlocks == InitBlocks /\ [][NextBlocks]_vars

-----------------------------------------------------------------------------
(* The block splitter driven on texts that also hold an opening marker with  *)
(* an alignment the pattern does not know.                                   *)

MalformedPieces == Pieces \cup { OpenerPrefix \o <<"u", "p", "]">> }

InitMalformed == InitTexts(MalformedPieces, MaxMalformedPieces)

NextMalformed == CallParseJustifyBlocks

SpecMalformed == InitMalformed /\ [][NextMalformed]_vars

-----------------------------------------------------------------------------
(* The style parser driven on every line up to a bounded length.  A line     *)
(* comes from str.splitlines() in _insert_rich_text, so it holds no newline. *)

LineChars == {"*", "_", "a"}

InitLines(n) ==
    /\ text \in SeqsUpTo(LineChars, n)
    /\ pc = "line"
    /\ parsed = NoStyleRun
    /\ reparsed = NoStyleRun
    /\ split = NoBlocksRun
    /\ pairing = NoPairing
    /\ widget = SetupTextWidgets

InitStyle == InitLines(MaxLineLen)

\* formatted_parts = self._parse_style(line)
CallParseStyle ==
    /\ pc = "line"
    /\ parsed' = ParseStyleRun(text)
    /\ pc' = "parsed"
    /\ UNCHANGED <<text, reparsed, split, pairing, widget>>

NextStyle == CallParseStyle

SpecStyle == InitStyle /\ [][NextStyle]_vars

-----------------------------------------------------------------------------
(* The style parser applied again to the text it produced: the caller joins  *)
(* the segment texts and parses the result as a new line.                    *)

InitReparse == InitLines(MaxReparseLen)

CallReparse ==
    /\ pc = "parsed"
    /\ reparsed' = ParseStyleRun(JoinTexts(parsed.merged))
    /\ pc' = "reparsed"
    /\ UNCHANGED <<text, parsed, split, pairing, widget>>

NextReparse == CallParseStyle \/ CallReparse

SpecReparse == InitReparse /\ [][NextReparse]_vars

-----------------------------------------------------------------------------
(* Vocabulary of the claims about _parse_style *)

style_markers == parsed.style_markers

pairs == parsed.pairs

out_segments == parsed.out_segments

segments == parsed.merged

\* positions of the line covered by a marker occurrence that was paired
PairedMarkerPositions ==
    UNION {style_markers[k].pos .. (style_markers[k].pos + style_markers[k].len - 1) :
              k \in {j \in 1..Len(style_markers) : style_markers[j].paired}}

\* the 0-based positions below n that are not in removed, in increasing order
RECURSIVE KeptFrom(_, _, _)
KeptFrom(n, removed, i) ==
    IF i >= n THEN <<>>
    ELSE IF i \in removed THEN KeptFrom(n, removed, i + 1)
    ELSE <<i>> \o KeptFrom(n, removed, i + 1)

KeptPositions == KeptFrom(Len(text), PairedMarkerPositions, 0)

\* the line with exactly the characters of paired markers removed
LineWithoutPairedMarkers ==
    LET kept == KeptPositions
    IN  [k \in 1..Len(kept) |-> text[kept[k] + 1]]

\* the tag of the segment holding each emitted character, in order
RECURSIVE TagPerChar(_)
TagPerChar(segs) ==
    IF segs = <<>> THEN <<>>
    ELSE [k \in 1..Len(segs[1][2]) |-> segs[1][1]] \o TagPerChar(Tail(segs))

\* C1: the joined texts of the returned segments are the line with exactly
\* the characters of the paired marker tokens removed; everything else is
\* kept once and in order.
C1_JoinedTextIsLineMinusPairedMarkers ==
    pc = "parsed" => JoinTexts(segments) = LineWithoutPairedMarkers

\* a parsed line with a paired marker and an unpaired one that stays literal
C1_Witness ==
    /\ pc = "parsed"
    /\ pairs # <<>>
    /\ \E k \in 1..Len(style_markers) : ~style_markers[k].paired
    /\ JoinTexts(segments) = LineWithoutPairedMarkers
    /\ Len(JoinTexts(segments)) < Len(text)

\* the styles each marker kind stands for, as the claim lists them
ClaimedStylesOf(token) ==
    IF token = <<"*", "*", "*">> THEN {"bold", "italic"}
    ELSE IF token = <<"*", "*">> THEN {"bold"}
    ELSE IF token = <<"*">> THEN {"italic"}
    ELSE {"underline"}

\* the tag name of a style combination
ClaimedTagOf(styles) ==
    IF "bold" \in styles
    THEN (IF "italic" \in styles
          THEN (IF "underline" \in styles THEN "bolditalicunderline" ELSE "bolditalic")
          ELSE (IF "underline" \in styles THEN "boldunderline" ELSE "bold"))
    ELSE (IF "italic" \in styles
          THEN (IF "underline" \in styles THEN "italicunderline" ELSE "italic")
          ELSE (IF "underline" \in styles THEN "underline" ELSE "content"))

\* position i lies in the inner span of the pair p
InsidePair(p, i) == p[1].pos + p[1].len <= i /\ i < p[2].pos

\* the styles of all pairs whose inner span contains position i
StylesAt(i) ==
    UNION {ClaimedStylesOf(pairs[k][1].token) :
              k \in {j \in 1..Len(pairs) : InsidePair(pairs[j], i)}}

\* C2: every emitted character carries the tag of the set of styles of all
\* the pairs whose inner span contains it; outside every pair it is "content".
C2_TagIsStylesOfEnclosingPairs ==
    pc = "parsed" =>
        LET kept == KeptPositions
        IN  TagPerChar(segments) = [k \in 1..Len(kept) |-> ClaimedTagOf(StylesAt(kept[k]))]

\* a character after an inner pair has closed, still inside an outer pair
\* that contributes the same style, keeps that style
C2_Witness ==
    /\ pc = "parsed"
    /\ \E a, b \in 1..Len(pairs) :
          /\ InsidePair(pairs[a], pairs[b][1].pos)
          /\ InsidePair(pairs[a], pairs[b][2].pos)
          /\ ClaimedStylesOf(pairs[a][1].token) \cap ClaimedStylesOf(pairs[b][1].token) # {}
          /\ \E k \in 1..Len(KeptPositions) :
                /\ KeptPositions[k] >= pairs[b][2].pos + pairs[b][2].len
                /\ InsidePair(pairs[a], KeptPositions[k])
                /\ TagPerChar(segments)[k] = ClaimedTagOf(ClaimedStylesOf(pairs[a][1].token))

\* C9: the style parser returns at least one segment for every line.
C9_AtLeastOneSegment ==
    pc = "parsed" => Len(segments) >= 1

\* a parsed line made only of marker characters, none of them paired
C9_Witness ==
    /\ pc = "parsed"
    /\ text # <<>>
    /\ \A k \in 1..Len(text) : text[k] \in {"*", "_"}
    /\ pairs = <<>>
    /\ Len(segments) = 1

\* C10: no two consecutive returned segments carry the same tag, and the
\* returned segments hold the emitted runs' texts in order.
C10_NoAdjacentSameTag ==
    pc = "parsed" =>
        /\ \A k \in 1..(Len(segments) - 1) : segments[k][1] # segments[k + 1][1]
        /\ out_segments # <<>> => JoinTexts(segments) = JoinTexts(out_segments)

\* two neighbouring emitted runs with the same tag were merged into one
C10_Witness ==
    /\ pc = "parsed"
    /\ \E k \in 1..(Len(out_segments) - 1) : out_segments[k][1] = out_segments[k + 1][1]
    /\ Len(segments) < Len(out_segments)
    /\ \A k \in 1..(Len(segments) - 1) : segments[k][1] # segments[k + 1][1]

\* the second parse pairs nothing: same text back, every segment plain
ReparseChangesNothing ==
    /\ reparsed.pairs = <<>>
    /\ JoinTexts(reparsed.merged) = JoinTexts(segments)
    /\ \A k \in 1..Len(reparsed.merged) : reparsed.merged[k][1] = "content"

\* the marker kinds of a list of occurrences, in order
TokenKinds(occs) == [k \in 1..Len(occs) |-> occs[k].token]

\* the occurrences of the first parse that stayed unpaired
UnpairedMarkers == SelectSeq(style_markers, LAMBDA occ : ~occ.paired)

\* removing the paired markers did not create a marker: the markers found in
\* the remaining text are exactly the ones the first parse left unpaired
NoMarkerJoined ==
    TokenKinds(FindStyleMarkers(LineWithoutPairedMarkers, Tokens)) = TokenKinds(UnpairedMarkers)

\* C3 as stated: parsing the joined segment texts again pairs no marker.
C3_ReparsePairsNothing ==
    pc = "reparsed" => ReparseChangesNothing

\* C3 amended: when removing the paired markers joins no characters into a
\* new marker, parsing the joined segment texts again pairs no marker.
C3_ReparsePairsNothingUnlessJoined ==
    (pc = "reparsed" /\ NoMarkerJoined) => ReparseChangesNothing

\* a line with a pair and a marker left literal; the second parse leaves it
C3_Witness ==
    /\ pc = "reparsed"
    /\ pairs # <<>>
    /\ UnpairedMarkers # <<>>
    /\ NoMarkerJoined
    /\ ReparseChangesNothing

-----------------------------------------------------------------------------
(* Vocabulary of the claims about _parse_justify_blocks, stated on the text  *)
(* itself: where the markers are, which openers are terminated, what lies    *)
(* between the recognised pairs.                                             *)

matches == split.matches

blocks == split.blocks

LeftOpener == <<"[", "j", "u", "s", "t", "i", "f", "y", ":", "l", "e", "f", "t", "]">>

CenterOpener == <<"[", "j", "u", "s", "t", "i", "f", "y", ":", "c", "e", "n", "t", "e", "r", "]">>

RightOpener == <<"[", "j", "u", "s", "t", "i", "f", "y", ":", "r", "i", "g", "h", "t", "]">>

UnknownOpener == <<"[", "j", "u", "s", "t", "i", "f", "y", ":", "u", "p", "]">>

ClosingMarker == <<"[", "/", "j", "u", "s", "t", "i", "f", "y", "]">>

KnownOpeners == {<<"justify_left", LeftOpener>>, <<"justify_center", CenterOpener>>,
                 <<"justify_right", RightOpener>>}

Positions == 0..(Len(text) - 1)

CloserPositions == {j \in Positions : StartsWith(text, ClosingMarker, j)}

\* a closing marker starts somewhere in i..(j - 1)
CloserWithin(i, j) == \E c \in CloserPositions : i <= c /\ c < j

\* the pairs the text holds: for each match, the opener it starts with and
\* the first closing marker after that opener
PairIsWellFormed(m) ==
    \E o \in KnownOpeners :
        /\ JustifyTag(m.group1) = o[1]
        /\ StartsWith(text, o[2], m.start)
        /\ m.content_start = m.start + Len(o[2])
        /\ m.content_end \in CloserPositions
        /\ ~CloserWithin(m.content_start, m.content_end)
        /\ m.end = m.content_end + Len(ClosingMarker)

ContentOf(m) == Slice(text, m.content_start, m.content_end)

\* what lies before match k and after the previous one (or the text start)
GapBefore(k) == Slice(text, IF k = 1 THEN 0 ELSE matches[k - 1].end, matches[k].start)

LastEnd == IF matches = <<>> THEN 0 ELSE matches[Len(matches)].end

\* the text cut at the markers of the recognised pairs, in source order:
\* gap, content, gap, content, ..., final gap
RECURSIVE SourcePiecesFrom(_)
SourcePiecesFrom(k) ==
    IF k > Len(matches) THEN << <<None, Slice(text, LastEnd, Len(text))>> >>
    ELSE << <<None, GapBefore(k)>>, <<JustifyTag(matches[k].group1), ContentOf(matches[k])>> >>
         \o SourcePiecesFrom(k + 1)

SourcePieces == SourcePiecesFrom(1)

NonBlank(ps) == SelectSeq(ps, LAMBDA b : ~IsBlank(b[2]))

AlignedOnly(ps) == SelectSeq(ps, LAMBDA b : b[1] # None)

\* the closing marker occurs inside s
HoldsCloser(s) == \E j \in 0..(Len(s) - 1) : StartsWith(s, ClosingMarker, j)

\* C4: every recognised pair starts with a known opener and ends with the
\* first closing marker after it; pairs do not overlap; the aligned blocks are
\* exactly the non-blank contents of the pairs with their alignments, in
\* source order, none holding a closing marker; and when some piece is not
\* blank, the blocks are the non-blank pieces in source order.
C4_PairsYieldAlignedBlocks ==
    pc = "split" =>
        /\ \A k \in 1..Len(matches) : PairIsWellFormed(matches[k])
        /\ \A k \in 1..(Len(matches) - 1) : matches[k].end <= matches[k + 1].start
        /\ AlignedOnly(blocks) = AlignedOnly(NonBlank(SourcePieces))
        /\ \A k \in 1..Len(blocks) : blocks[k][1] # None => ~HoldsCloser(blocks[k][2])
        /\ NonBlank(SourcePieces) # <<>> => blocks = NonBlank(SourcePieces)

\* two recognised pairs with different alignments give two aligned blocks
C4_Witness ==
    /\ pc = "split"
    /\ Len(matches) = 2
    /\ Len(AlignedOnly(blocks)) = 2
    /\ blocks[1][1] # blocks[Len(blocks)][1]
    /\ \A k \in 1..Len(matches) : PairIsWellFormed(matches[k])

\* C5 as stated: the joined block texts are the text with only the markers
\* of the recognised pairs removed.
C5_BlocksJoinToTextMinusMarkers ==
    pc = "split" => JoinTexts(blocks) = JoinTexts(SourcePieces)

\* the text is nothing but recognised pairs with empty contents
OnlyEmptyPairs == \A k \in 1..Len(SourcePieces) : SourcePieces[k][2] = <<>>

\* C5 amended: the joined block texts are the text with the markers of the
\* recognised pairs and every blank gap or content removed; a text made only
\* of pairs with empty contents comes back whole.
C5_BlocksJoinToNonBlankPieces ==
    pc = "split" =>
        JoinTexts(blocks) = IF OnlyEmptyPairs THEN text
                            ELSE JoinTexts(NonBlank(SourcePieces))

\* a pair is recognised, a blank piece is dropped and other text is kept
C5_Witness ==
    /\ pc = "split"
    /\ matches # <<>>
    /\ blocks # <<>>
    /\ \E k \in 1..Len(SourcePieces) :
          SourcePieces[k][2] # <<>> /\ IsBlank(SourcePieces[k][2])
    /\ JoinTexts(blocks) = JoinTexts(NonBlank(SourcePieces))
    /\ JoinTexts(blocks) # JoinTexts(SourcePieces)

\* the text holds no known opener followed, anywhere after it, by a closer
NoPairInText ==
    \A i \in Positions : \A o \in KnownOpeners :
        StartsWith(text, o[2], i) => ~CloserWithin(i + Len(o[2]), Len(text))

\* C6 as stated: a text with no recognised pair gives exactly one block,
\* unaligned, holding the whole text.
C6_NoPairGivesWholeText ==
    (pc = "split" /\ NoPairInText) => blocks = << <<None, text>> >>

\* C6 amended: a text with no recognised pair gives exactly one unaligned
\* block holding the whole text when the text is not blank, and no block at
\* all when the text is empty or whitespace-only.
C6_NoPairGivesWholeTextUnlessBlank ==
    (pc = "split" /\ NoPairInText) =>
        blocks = IF IsBlank(text) THEN <<>> ELSE << <<None, text>> >>

\* a text that holds markers but no pair comes back as one unaligned block
C6_Witness ==
    /\ pc = "split"
    /\ NoPairInText
    /\ CloserPositions # {}
    /\ \E i \in Positions : StartsWith(text, LeftOpener, i)
    /\ blocks = << <<None, text>> >>

\* known openers with no closing marker anywhere after them, as spans
UnterminatedOpeners ==
    {<<i, i + Len(o[2])>> : <<i, o>> \in
        {x \in Positions \X KnownOpeners :
            /\ StartsWith(text, x[2][2], x[1])
            /\ ~CloserWithin(x[1] + Len(x[2][2]), Len(text))}}

\* openers naming an alignment that is not known, as spans
UnknownOpeners ==
    {<<i, i + Len(UnknownOpener)>> : i \in {j \in Positions : StartsWith(text, UnknownOpener, j)}}

\* a known opener before p with no closing marker between it and p
OpenerWaitingAt(p) ==
    \E q \in Positions : \E o \in KnownOpeners :
        /\ StartsWith(text, o[2], q)
        /\ q + Len(o[2]) <= p
        /\ ~CloserWithin(q + Len(o[2]), p)

\* closing markers not preceded by an opener that is still waiting, as spans
StrayClosers ==
    {<<p, p + Len(ClosingMarker)>> : p \in {c \in CloserPositions : ~OpenerWaitingAt(c)}}

\* the span lies in a gap between recognised pairs and that gap is returned
\* as an unaligned block
KeptInUnalignedBlock(span) ==
    \E k \in 1..(Len(matches) + 1) :
        LET from == IF k = 1 THEN 0 ELSE matches[k - 1].end
            to == IF k > Len(matches) THEN Len(text) ELSE matches[k].start
        IN  /\ from <= span[1] /\ span[2] <= to
            /\ \E b \in 1..Len(blocks) : blocks[b] = <<None, Slice(text, from, to)>>

\* the span lies in the content of a recognised pair and that content is
\* returned as the pair's aligned block
KeptInAlignedBlock(span) ==
    \E k \in 1..Len(matches) :
        /\ matches[k].content_start <= span[1] /\ span[2] <= matches[k].content_end
        /\ \E b \in 1..Len(blocks) :
              blocks[b] = <<JustifyTag(matches[k].group1), ContentOf(matches[k])>>

\* C7 as stated: unterminated openers, openers with an unknown alignment and
\* stray closing markers are all kept verbatim in an unaligned block.
C7_MalformedKeptInUnalignedBlock ==
    pc = "split" =>
        \A span \in UnterminatedOpeners \cup UnknownOpeners \cup StrayClosers :
            KeptInUnalignedBlock(span)

\* C7 amended: unterminated openers and stray closing markers are kept
\* verbatim in an unaligned block; an opener with an unknown alignment is kept
\* verbatim in an unaligned block, or, when it lies between the markers of a
\* recognised pair, in that pair's aligned block.
C7_MalformedKeptVerbatim ==
    pc = "split" =>
        /\ \A span \in UnterminatedOpeners \cup StrayClosers : KeptInUnalignedBlock(span)
        /\ \A span \in UnknownOpeners :
              KeptInUnalignedBlock(span) \/ KeptInAlignedBlock(span)

\* a recognised pair holding an unknown opener, followed by a stray closing
\* marker: the first is kept in the aligned block, the second in an unaligned
C7_Witness ==
    /\ pc = "split"
    /\ matches # <<>>
    /\ \E span \in UnknownOpeners : KeptInAlignedBlock(span) /\ ~KeptInUnalignedBlock(span)
    /\ \E span \in StrayClosers : KeptInUnalignedBlock(span)

\* C8: when a recognised pair has an empty or whitespace-only content, the
\* returned blocks are exactly the non-blank pieces between the markers: the
\* pair gives no block and its markers and content are in no block.
C8_BlankPairsLeaveNoTrace ==
    (pc = "split" /\ \E k \in 1..Len(matches) : IsBlank(ContentOf(matches[k]))) =>
        blocks = NonBlank(SourcePieces)

-----------------------------------------------------------------------------
(* The line classifier driven through set_text(text) in rich mode on every   *)
(* text up to MaxBlockLen characters of heading marks, spaces, a letter, an  *)
(* emphasis mark and newlines.  Such a text holds no justify marker, so it   *)
(* is one block.                                                             *)

BlockChars == {"#", " ", "a", "*", NL}

InitShow(texts) ==
    /\ text \in texts
    /\ pc = "block"
    /\ parsed = NoStyleRun
    /\ reparsed = NoStyleRun
    /\ split = NoBlocksRun
    /\ pairing = NoPairing
    /\ widget = SetupTextWidgets

InitLinesOfBlock == InitShow(SeqsUpTo(BlockChars, MaxBlockLen))

\* set_text(text): rich_text has its default, True
CallSetText ==
    /\ pc = "block"
    /\ widget' = UpdateText(widget, Str(text), TRUE)
    /\ pc' = "shown"
    /\ UNCHANGED <<text, parsed, reparsed, split, pairing>>

NextLinesOfBlock == CallSetText

SpecLinesOfBlock == InitLinesOfBlock /\ [][NextLinesOfBlock]_vars

-----------------------------------------------------------------------------
(* Vocabulary of the claims about the line classifier, stated on the text    *)
(* that was shown and on the inserts the textbox received                    *)

textbox == widget.textbox

\* _update_text hands the text to _insert_rich_text without its leading
\* whitespace
ShownText == IF text = <<>> \/ text[1] \notin Whitespace THEN text
             ELSE LET first == {i \in 1..Len(text) : text[i] \notin Whitespace}
                  IN  IF first = {} THEN <<>>
                      ELSE SubSeq(text, CHOOSE i \in first : \A j \in first : i <= j, Len(text))

ShownBlocks == ParseJustifyBlocks(ShownText)

\* the newlines of a block text, as 1-based indices
NewlinesOf(s) == {i \in 1..Len(s) : s[i] = NL}

\* the number of lines of a block text: a final newline ends the last line
\* and opens none
LineCount(s) ==
    IF s = <<>> THEN 0
    ELSE Cardinality(NewlinesOf(s)) + (IF s[Len(s)] = NL THEN 0 ELSE 1)

\* the n-th newline of s
NthNewline(s, n) ==
    CHOOSE i \in NewlinesOf(s) : Cardinality({j \in NewlinesOf(s) : j < i}) = n - 1

\* the n-th line of s, without its newline
LineAt(s, n) ==
    LET from == IF n = 1 THEN 1 ELSE NthNewline(s, n - 1) + 1
        to   == IF n <= Cardinality(NewlinesOf(s)) THEN NthNewline(s, n) - 1 ELSE Len(s)
    IN  SubSeq(s, from, to)

\* a line without the whitespace around it
Trimmed(line) ==
    LET solid == {i \in 1..Len(line) : line[i] \notin Whitespace}
    IN  IF solid = {} THEN <<>>
        ELSE SubSeq(line, CHOOSE i \in solid : \A j \in solid : i <= j,
                          CHOOSE i \in solid : \A j \in solid : i >= j)

BlankLine(line) == Trimmed(line) = <<>>

\* the heading marks: prefix, number of characters dropped, tag of the level
HeadingMarks ==
    { << <<"#", "#", "#", " ">>, 4, "###heading" >>,
      << <<"#", "#", " ">>,      3, "##heading" >>,
      << <<"#", " ">>,           2, "#heading" >> }

BeginsWith(s, prefix) ==
    Len(s) >= Len(prefix) /\ SubSeq(s, 1, Len(prefix)) = prefix

HeadingLine(line) == \E m \in HeadingMarks : BeginsWith(Trimmed(line), m[1])

BodyLine(line) == ~BlankLine(line) /\ ~HeadingLine(line)

\* the tags of a run of block b: its own tag, then the alignment tag if any
TagsIn(b, tag) ==
    IF ShownBlocks[b][1] = None THEN <<tag>> ELSE <<tag, ShownBlocks[b][1]>>

\* the inserts made while the loops were at line l of block b
InsertsAt(b, l) == SelectSeq(textbox, LAMBDA ins : ins.at = <<b, l>>)

\* what the style parser gives for a body line, as inserts, and the newline
\* that ends the line
BodyInserts(b, l, line) ==
    [k \in 1..Len(ParseStyle(line)) |->
        [txt |-> ParseStyle(line)[k][2], tags |-> TagsIn(b, ParseStyle(line)[k][1]),
         at |-> <<b, l>>]]
    \o << [txt |-> <<NL>>, tags |-> <<>>, at |-> <<b, l>>] >>

LinesShown ==
    {<<b, l>> \in (1..Len(ShownBlocks)) \X (1..MaxBlockLen + 1) :
        l <= LineCount(ShownBlocks[b][2])}

\* C11: a line that, stripped, starts with "### ", "## " or "# " is one
\* heading insert of level 3, 2 or 1 whose text is the stripped line minus
\* the 4, 3 or 2 characters of the prefix, markers inside left as they are;
\* every other non-blank line is inserted as the style parser splits it.
C11_HeadingsLiteralBodiesStyled ==
    pc = "shown" =>
        \A bl \in LinesShown :
            LET line == LineAt(ShownBlocks[bl[1]][2], bl[2])
            IN  /\ \A m \in HeadingMarks :
                    BeginsWith(Trimmed(line), m[1]) =>
                        InsertsAt(bl[1], bl[2]) =
                            << [txt |-> SubSeq(Trimmed(line), m[2] + 1, Len(Trimmed(line)))
                                            \o <<NL>>,
                                tags |-> TagsIn(bl[1], m[3]),
                                at |-> bl] >>
                /\ BodyLine(line) => InsertsAt(bl[1], bl[2]) = BodyInserts(bl[1], bl[2], line)

\* a heading whose text holds a pair of emphasis markers has been shown with
\* the markers in it
C11_Witness ==
    /\ pc = "shown"
    /\ \E k \in 1..Len(textbox) :
          /\ textbox[k].tags = <<"#heading">>
          /\ textbox[k].txt = <<"*", "a", "*", NL>>
    /\ text = <<"#", " ", "*", "a", "*">>

\* the maximal runs of blank lines of block b, as (first line, last line)
BlankRuns(b) ==
    LET s == ShownBlocks[b][2]
        n == LineCount(s)
        blank(l) == BlankLine(LineAt(s, l))
    IN  {r \in (1..n) \X (1..n) :
            /\ r[1] <= r[2]
            /\ \A l \in r[1]..r[2] : blank(l)
            /\ r[1] = 1 \/ ~blank(r[1] - 1)
            /\ r[2] = n \/ ~blank(r[2] + 1)}

\* the inserts made while the loops were at the lines l1..l2 of block b
InsertsWithin(b, l1, l2) ==
    SelectSeq(textbox, LAMBDA ins : ins.at[1] = b /\ l1 <= ins.at[2] /\ ins.at[2] <= l2)

\* a paragraph break: a newline of its own, without tags
IsBreak(ins) == ins.txt = <<NL>> /\ ins.tags = <<>>

\* C12: within a block, every maximal run of blank lines gives exactly one
\* paragraph break; a heading or body line ends the run, so the blank lines
\* after it are a new run with a break of its own.
C12_OneBreakPerBlankRun ==
    pc = "shown" =>
        \A b \in 1..Len(ShownBlocks) : \A r \in BlankRuns(b) :
            /\ Len(InsertsWithin(b, r[1], r[2])) = 1
            /\ IsBreak(InsertsWithin(b, r[1], r[2])[1])

\* a run of two blank lines between two body lines has been shown
C12_Witness ==
    /\ pc = "shown"
    /\ \E b \in 1..Len(ShownBlocks) : \E r \in BlankRuns(b) :
          /\ r[2] > r[1]
          /\ r[1] > 1
          /\ r[2] < LineCount(ShownBlocks[b][2])
          /\ Len(InsertsWithin(b, r[1], r[2])) = 1

-----------------------------------------------------------------------------
(* The built widget driven by any sequence of set_text and configure calls.  *)
(* Here text is the text most recently given by a caller (NotGiven before    *)
(* any was given) and pc names the last call.                                *)

TextChars == {"a", " ", NL}

Items == {<<" ", "a">>}

ItemSeqs == SeqsUpTo(Items, MaxItems)

\* one-item dicts and the empty dict
Dicts == {<<>>} \cup {<< <<k, v>> >> : k \in Items, v \in Items}

TextValues ==
    {NoneValue}
    \cup {Str(s) : s \in SeqsUpTo(TextChars, MaxTextLen)}
    \cup {[type |-> "list", val |-> items] : items \in ItemSeqs}
    \cup {[type |-> "tuple", val |-> items] : items \in ItemSeqs}
    \cup {[type |-> "dict", val |-> items] : items \in Dicts}

Footers == {NoFooter, "footer"}

\* no caller has given a text yet
NotGiven == [type |-> "NotGiven", val |-> <<>>]

CustomKeys == {"text", "rich_text", "footer", "include_scrollbar"}

\* TextPanel(master): _setup_text_widgets with the defaults, no text given
InitWidget ==
    /\ text = NotGiven
    /\ pc = "built"
    /\ parsed = NoStyleRun
    /\ reparsed = NoStyleRun
    /\ split = NoBlocksRun
    /\ pairing = NoPairing
    /\ widget = SetupTextWidgets

\* set_text(text, rich_text)
SetText ==
    \E v \in TextValues, rich_text \in BOOLEAN :
        /\ widget' = UpdateText(widget, v, rich_text)
        /\ text' = v
        /\ pc' = "set_text"
        /\ UNCHANGED <<parsed, reparsed, split, pairing>>

\* getattr(self, "_current_text", None): no code of the class sets an
\* attribute of that name, so the default is what comes back
GetAttrCurrentText(w) == NoneValue

\* getattr(self, "_current_rich_text", True), likewise
GetAttrCurrentRichText(w) == TRUE

\* the "if custom_options:" part of configure, for the options named in keys
ConfigureCustom(w, keys, v, rich_text, footer, include_scrollbar) ==
    LET rebuilt ==
            IF "footer" \in keys \/ "include_scrollbar" \in keys
            THEN SetupTextWidgetsWith(
                     IF "footer" \in keys THEN footer ELSE NoFooter,
                     IF "include_scrollbar" \in keys THEN include_scrollbar ELSE TRUE)
            ELSE w
    IN  IF "text" \in keys \/ "rich_text" \in keys
        THEN UpdateText(rebuilt,
                        IF "text" \in keys THEN v ELSE GetAttrCurrentText(rebuilt),
                        IF "rich_text" \in keys THEN rich_text
                        ELSE GetAttrCurrentRichText(rebuilt))
        ELSE rebuilt

\* configure(text=...) together with any of the other custom options; an
\* option that is not among the keys has the default of its parameter
ConfigureWithText ==
    \E keys \in SUBSET CustomKeys, v \in TextValues, rich_text \in BOOLEAN,
       footer \in Footers, include_scrollbar \in BOOLEAN :
        /\ "text" \in keys
        /\ "rich_text" \notin keys => rich_text = TRUE
        /\ "footer" \notin keys => footer = NoFooter
        /\ "include_scrollbar" \notin keys => include_scrollbar = TRUE
        /\ widget' = ConfigureCustom(widget, keys, v, rich_text, footer, include_scrollbar)
        /\ text' = v
        /\ pc' = "configure_with_text"
        /\ UNCHANGED <<parsed, reparsed, split, pairing>>

\* configure(...) with rich_text, footer or include_scrollbar and no text
ConfigureWithoutText ==
    \E keys \in SUBSET CustomKeys, rich_text \in BOOLEAN,
       footer \in Footers, include_scrollbar \in BOOLEAN :
        /\ "text" \notin keys
        /\ keys # {}
        /\ "rich_text" \notin keys => rich_text = TRUE
        /\ "footer" \notin keys => footer = NoFooter
        /\ "include_scrollbar" \notin keys => include_scrollbar = TRUE
        /\ widget' = ConfigureCustom(widget, keys, NoneValue, rich_text, footer,
                                     include_scrollbar)
        /\ pc' = "configure_without_text"
        /\ UNCHANGED <<text, parsed, reparsed, split, pairing>>

Next == SetText \/ ConfigureWithText \/ ConfigureWithoutText

Spec == InitWidget /\ [][Next]_vars

-----------------------------------------------------------------------------
(* Vocabulary of the claims about the widget operations *)

\* the last call gave a text, which went through _update_text
TextJustGiven == pc \in {"set_text", "configure_with_text"}

\* the textbox holds one untagged run, made of the message
ShowsOnly(message) ==
    /\ Len(textbox) = 1
    /\ textbox[1].txt = <<message>>
    /\ textbox[1].tags = <<>>

IsNone(v) == v.type = "NoneType"

IsEmptyString(v) == v.type = "str" /\ v.val = <<>>

IsCollection(v) == v.type \in {"list", "tuple", "dict"}

\* C13: a text that is None or the empty string is displayed as the one
\* placeholder run 'No text available' and nothing else, in both modes.
C13_NoneOrEmptyShowsPlaceholder ==
    (TextJustGiven /\ (IsNone(text) \/ IsEmptyString(text)))
        => ShowsOnly("No text available")

\* C14: in rich mode a list, tuple or dict is displayed as the one message
\* 'Error: Rich text mode requires a string input.', no insert comes from
\* the block and line loops, and the text box ends disabled.
C14_CollectionInRichModeShowsError ==
    (TextJustGiven /\ widget.current_rich_text /\ IsCollection(text))
        => /\ ShowsOnly("Error: Rich text mode requires a string input.")
           /\ \A k \in 1..Len(textbox) : textbox[k].at = <<0, 0>>
           /\ widget.state = "disabled"

\* set_text was given a dict with an item, in rich mode
C14_Witness ==
    /\ pc = "set_text"
    /\ widget.current_rich_text
    /\ text.type = "dict"
    /\ text.val # <<>>
    /\ ShowsOnly("Error: Rich text mode requires a string input.")
\* what _update_text puts into the textbox for a text in a mode
RenderingOf(v, rich_text) == UpdateText(SetupTextWidgets, v, rich_text).textbox

\* C19: after a configure call that gives no text, made once a text has been
\* given, the textbox holds the rendering of the text most recently given,
\* in the mode now in effect, and current_text still records that text.
C19_ConfigureWithoutTextKeepsText ==
    (pc = "configure_without_text" /\ text.type # "NotGiven") =>
        /\ SameValue(widget.current_text, text)
        /\ textbox = RenderingOf(text, widget.current_rich_text)

-----------------------------------------------------------------------------
(* _parse_style called on every text up to MaxPairLen characters, newlines   *)
(* included, with the loop of _pair_style_markers taken one occurrence at a  *)
(* time.                                                                     *)

PairChars == {"*", "_", "a", NL}

InitPairing ==
    /\ text \in SeqsUpTo(PairChars, MaxPairLen)
    /\ pc = "markers"
    /\ parsed = NoStyleRun
    /\ reparsed = NoStyleRun
    /\ split = NoBlocksRun
    /\ pairing = NoPairing
    /\ widget = SetupTextWidgets

\* not any(c in text for c in ("*", "_"))
NoMarkerChars(s) == ~(Contains(s, "*") \/ Contains(s, "_"))

\* the fast path of _parse_style: a text without "*" and "_" is returned
\* as it is, _pair_style_markers is not called
FastPath ==
    /\ pc = "markers"
    /\ NoMarkerChars(text)
    /\ parsed' = ParseStyleRun(text)
    /\ pc' = "parsed"
    /\ UNCHANGED <<text, reparsed, split, pairing, widget>>

\* pairs = self._pair_style_markers(style_markers, text): entry, with the
\* stack and the pair list empty
CallPairStyleMarkers ==
    /\ pc = "markers"
    /\ ~NoMarkerChars(text)
    /\ pairing' = [markers |-> FindStyleMarkers(text, Tokens), stack |-> <<>>,
                   pairs |-> <<>>, next |-> 1]
    /\ pc' = "pairing"
    /\ UNCHANGED <<text, parsed, reparsed, split, widget>>

\* one turn of "for occ in style_markers"
PairNext ==
    /\ pc = "pairing"
    /\ pairing.next <= Len(pairing.markers)
    /\ LET st == PairStep(pairing, pairing.next, text)
       IN  pairing' = [markers |-> st.markers, stack |-> st.stack, pairs |-> st.pairs,
                       next |-> pairing.next + 1]
    /\ UNCHANGED <<text, pc, parsed, reparsed, split, widget>>

\* return pairs, and the rest of _parse_style
ReturnPairs ==
    /\ pc = "pairing"
    /\ pairing.next > Len(pairing.markers)
    /\ parsed' = ParseStyleRun(text)
    /\ pc' = "parsed"
    /\ UNCHANGED <<text, reparsed, split, pairing, widget>>

NextPairing == FastPath \/ CallPairStyleMarkers \/ PairNext \/ ReturnPairs

SpecPairing == InitPairing /\ [][NextPairing]_vars

-----------------------------------------------------------------------------
(* Vocabulary of the claims about the pairing loop *)

stack == pairing.stack

\* the characters strictly between the end of occurrence a and the start of
\* occurrence b
Between(a, b) ==
    IF b.pos <= a.pos + a.len THEN <<>> ELSE SubSeq(text, a.pos + a.len + 1, b.pos)

\* the occurrence the loop is at may close the one on top of the stack
ClosesTop ==
    /\ stack # <<>>
    /\ LET top == pairing.markers[stack[Len(stack)]]
           occ == pairing.markers[pairing.next]
       IN  /\ top.token = occ.token
           /\ Between(top, occ) # <<>>
           /\ \A i \in 1..Len(Between(top, occ)) : Between(top, occ)[i] # NL

\* the turn of the loop that is being taken
LoopTurn == pc = "pairing" /\ pairing'.next = pairing.next + 1

\* C15: the occurrence is paired with the top of the stack exactly when both
\* have the same token and the text strictly between them is non-empty and
\* holds no newline; then the top is popped, both are marked paired and the
\* pair is emitted; otherwise the occurrence is pushed and the rest of the
\* stack, the marks and the pairs are left as they were.
C15_PairsWithTopOnly ==
    [][LoopTurn =>
        LET k == pairing.next
            t == stack[Len(stack)]
        IN  IF ClosesTop
            THEN /\ pairing'.stack = SubSeq(stack, 1, Len(stack) - 1)
                 /\ pairing'.markers[t].paired /\ pairing'.markers[k].paired
                 /\ \A j \in (1..Len(pairing.markers)) \ {t, k} :
                        pairing'.markers[j] = pairing.markers[j]
                 /\ Len(pairing'.pairs) = Len(pairing.pairs) + 1
                 /\ SubSeq(pairing'.pairs, 1, Len(pairing.pairs)) = pairing.pairs
                 /\ pairing'.pairs[Len(pairing'.pairs)][1].pos = pairing.markers[t].pos
                 /\ pairing'.pairs[Len(pairing'.pairs)][2].pos = pairing.markers[k].pos
            ELSE /\ pairing'.stack = Append(stack, k)
                 /\ pairing'.markers = pairing.markers
                 /\ pairing'.pairs = pairing.pairs
    ]_vars

\* a pair has been emitted, and two occurrences of one token lie next to each
\* other on the stack with a newline between them
C15_Witness ==
    /\ pc = "pairing"
    /\ pairing.pairs # <<>>
    /\ \E i \in 1..(Len(stack) - 1) :
          /\ pairing.markers[stack[i]].token = pairing.markers[stack[i + 1]].token
          /\ \E j \in 1..Len(Between(pairing.markers[stack[i]], pairing.markers[stack[i + 1]])) :
                Between(pairing.markers[stack[i]], pairing.markers[stack[i + 1]])[j] = NL
\* the first and last position of an occurrence
First(occ) == occ.pos

Last(occ) == occ.pos + occ.len - 1

\* pair q lies in the inner span of pair p
PairInside(q, p) == Last(p[1]) < First(q[1]) /\ Last(q[2]) < First(p[2])

\* pair p ends before pair q begins
PairBefore(p, q) == Last(p[2]) < First(q[1])

\* occurrence m lies between the two tokens of pair p
OccurrenceInside(m, p) == Last(p[1]) < First(m) /\ Last(m) < First(p[2])

\* the positions of the tokens of all pairs
PairTokenPositions ==
    UNION {(First(pairs[j][1])..Last(pairs[j][1])) \cup (First(pairs[j][2])..Last(pairs[j][2])) :
              j \in 1..Len(pairs)}

\* the characters of the text that are on no token of a pair, in their order
TextOutsidePairTokens ==
    LET kept == KeptFrom(Len(text), PairTokenPositions, 0)
    IN  [k \in 1..Len(kept) |-> text[kept[k] + 1]]

\* the occurrences left on the stack when the loop ended
LeftOnStack == {pairing.markers[stack[i]] : i \in 1..Len(stack)}

\* C16: the pairs of a line are properly nested: two pairs are disjoint or
\* one lies in the inner span of the other; an occurrence between the tokens
\* of a pair is in a pair that lies between them too; an occurrence left on
\* the stack at the end is in no pair, inside no pair, and its characters are
\* in the output.
C16_PairsProperlyNested ==
    pc = "parsed" =>
        /\ \A i, j \in 1..Len(pairs) :
              i # j => \/ PairBefore(pairs[i], pairs[j])
                       \/ PairBefore(pairs[j], pairs[i])
                       \/ PairInside(pairs[i], pairs[j])
                       \/ PairInside(pairs[j], pairs[i])
        /\ \A i \in 1..Len(pairs) : \A k \in 1..Len(pairing.markers) :
              OccurrenceInside(pairing.markers[k], pairs[i]) =>
                  \E j \in 1..Len(pairs) :
                      /\ PairInside(pairs[j], pairs[i])
                      /\ First(pairing.markers[k]) \in {First(pairs[j][1]), First(pairs[j][2])}
        /\ \A m \in LeftOnStack :
              /\ ~m.paired
              /\ \A j \in 1..Len(pairs) :
                    /\ First(m) \notin {First(pairs[j][1]), First(pairs[j][2])}
                    /\ ~OccurrenceInside(m, pairs[j])
              /\ (First(m)..Last(m)) \cap PairTokenPositions = {}
        /\ JoinTexts(segments) = TextOutsidePairTokens

\* a line with a pair inside another pair and an occurrence left on the
\* stack, whose characters are in the output
C16_Witness ==
    /\ pc = "parsed"
    /\ \E i, j \in 1..Len(pairs) : PairInside(pairs[j], pairs[i])
    /\ stack # <<>>
    /\ \E k \in 1..Len(JoinTexts(segments)) : JoinTexts(segments)[k] \in {"*", "_"}
-----------------------------------------------------------------------------
(* Vocabulary of the claim about _find_style_markers, stated on the line and *)
(* the occurrences found in it                                               *)

MarkerTokens == { <<"*", "*", "*">>, <<"*", "*">>, <<"_", "_">>, <<"*">> }

\* token tok is written in the line from position i on
WrittenAt(tok, i) ==
    /\ i + Len(tok) <= Len(text)
    /\ \A j \in 1..Len(tok) : text[i + j] = tok[j]

\* the occurrences that hold position i
OccurrencesOver(i) ==
    {k \in 1..Len(style_markers) : First(style_markers[k]) <= i /\ i <= Last(style_markers[k])}

\* the maximal runs of character c in the line, as (first, last) positions
RunsOf(c) ==
    {r \in (0..Len(text) - 1) \X (0..Len(text) - 1) :
        /\ r[1] <= r[2]
        /\ \A i \in r[1]..r[2] : text[i + 1] = c
        /\ r[1] = 0 \/ text[r[1]] # c
        /\ r[2] = Len(text) - 1 \/ text[r[2] + 2] # c}

\* the occurrence that starts at position i is token tok
OccurrenceAt(i, tok) ==
    \E k \in 1..Len(style_markers) :
        style_markers[k].pos = i /\ style_markers[k].token = tok

\* C17: the occurrences come in strictly increasing positions without
\* overlap; each is the longest token written at its position; every "*" is
\* in exactly one occurrence; a run of k asterisks is k \div 3 "***" tokens,
\* then one "**" or "*" for a remainder of 2 or 1; an underscore that the
\* scan reaches with no underscore after it is in no occurrence.
C17_TokenizerLongestFirst ==
    pc = "parsed" =>
        /\ \A k \in 1..(Len(style_markers) - 1) :
              Last(style_markers[k]) < First(style_markers[k + 1])
        /\ \A k \in 1..Len(style_markers) :
              /\ style_markers[k].token \in MarkerTokens
              /\ style_markers[k].len = Len(style_markers[k].token)
              /\ WrittenAt(style_markers[k].token, style_markers[k].pos)
              /\ \A tok \in MarkerTokens :
                    WrittenAt(tok, style_markers[k].pos) => Len(tok) <= style_markers[k].len
        /\ \A i \in 0..(Len(text) - 1) :
              text[i + 1] = "*" => Cardinality(OccurrencesOver(i)) = 1
        /\ \A r \in RunsOf("*") :
              LET k == r[2] - r[1] + 1
              IN  /\ \A j \in 0..((k \div 3) - 1) : OccurrenceAt(r[1] + 3 * j, <<"*", "*", "*">>)
                  /\ k % 3 = 2 => OccurrenceAt(r[1] + 3 * (k \div 3), <<"*", "*">>)
                  /\ k % 3 = 1 => OccurrenceAt(r[1] + 3 * (k \div 3), <<"*">>)
        /\ \A r \in RunsOf("_") :
              LET k == r[2] - r[1] + 1
              IN  /\ \A j \in 0..((k \div 2) - 1) : OccurrenceAt(r[1] + 2 * j, <<"_", "_">>)
                  /\ k % 2 = 1 => OccurrencesOver(r[2]) = {}

\* a run of five asterisks read as "***" then "**", and a run of three
\* underscores whose last one is in no occurrence
C17_Witness ==
    /\ pc = "parsed"
    /\ \E r \in RunsOf("*") :
          /\ r[2] - r[1] = 4
          /\ OccurrenceAt(r[1], <<"*", "*", "*">>)
          /\ OccurrenceAt(r[1] + 3, <<"*", "*">>)
    /\ \E r \in RunsOf("_") :
          /\ r[2] - r[1] = 2
          /\ OccurrenceAt(r[1], <<"_", "_">>)
          /\ OccurrencesOver(r[2]) = {}
-----------------------------------------------------------------------------
(* The line classifier driven through set_text(text) in rich mode on texts   *)
(* of several blocks: up to MaxBoundaryPieces pieces, each the opening       *)
(* marker of the center alignment, the closing marker, a letter or a newline *)

BoundaryPieces == { Opener(Alignments[2]), Closer, <<"a">>, <<NL>> }

InitBoundary ==
    InitShow({Flatten(ps) : ps \in SeqsUpTo(BoundaryPieces, MaxBoundaryPieces)})

NextBoundary == CallSetText

SpecBoundary == InitBoundary /\ [][NextBoundary]_vars

-----------------------------------------------------------------------------
(* Vocabulary of the claim about blank lines at block boundaries *)

\* insert k of the textbox is a paragraph break: an untagged newline made at
\* a blank line
BreakAt(bs, k) ==
    /\ IsBreak(textbox[k])
    /\ textbox[k].at[1] \in 1..Len(bs)
    /\ BlankLine(LineAt(bs[textbox[k].at[1]][2], textbox[k].at[2]))

LastLineBlank(block_text) == BlankLine(LineAt(block_text, LineCount(block_text)))

FirstLineBlank(block_text) == BlankLine(LineAt(block_text, 1))

\* C18: blank-line collapsing starts afresh in every block: two paragraph
\* breaks follow each other in the output exactly at a block boundary where
\* the last line of one block and the first line of the next are blank, and
\* never inside a block.
C18_DoubleBreakOnlyAtBlockBoundary ==
    pc = "shown" =>
        LET bs == ShownBlocks
        IN  /\ \A k \in 1..(Len(textbox) - 1) :
                  (BreakAt(bs, k) /\ BreakAt(bs, k + 1)) =>
                      /\ textbox[k + 1].at[1] = textbox[k].at[1] + 1
                      /\ LastLineBlank(bs[textbox[k].at[1]][2])
                      /\ textbox[k + 1].at[2] = 1
            /\ \A b \in 1..(Len(bs) - 1) :
                  (LastLineBlank(bs[b][2]) /\ FirstLineBlank(bs[b + 1][2])) =>
                      \E k \in 1..(Len(textbox) - 1) :
                          /\ BreakAt(bs, k) /\ BreakAt(bs, k + 1)
                          /\ textbox[k].at[1] = b
                          /\ textbox[k + 1].at = <<b + 1, 1>>

\* two paragraph breaks follow each other at the boundary of two blocks
C18_Witness ==
    /\ pc = "shown"
    /\ \E k \in 1..(Len(textbox) - 1) :
          /\ BreakAt(ShownBlocks, k) /\ BreakAt(ShownBlocks, k + 1)
          /\ textbox[k + 1].at[1] = textbox[k].at[1] + 1

=============================================================================
